---- MODULE Spec2Model ----
(***************************************************************************)
(* Model of the update synchronization core of the weather application     *)
(* (src/src/ui.rs): the WeatherApplication state behind Arc<Mutex<..>>,     *)
(* the flume channel of WeatherUpdate messages, the consumption loop that   *)
(* applies them with update(), the GTK signal callbacks bound in load(),    *)
(* and the fetch / search futures spawned on the glib main context.         *)
(***************************************************************************)
EXTENDS Integers, Sequences, FiniteSets, TLC

\* ------------------------------------------------------------------ bounds
MaxTasks == 2
MaxEvents == 2

Slots == 1..MaxTasks

\* ------------------------------------------------------------- value sets
\* Option<T>: None is the empty tuple, Some(x) the one-element tuple.
None == <<>>
Some(x) == <<x>>
IsSome(o) == Len(o) > 0
Unwrap(o) == o[1]

Units == {"Metric", "Imperial"}

PA == [location |-> "Paris", lat |-> 48, lon |-> 2]
PB == [location |-> "Lyon", lat |-> 45, lon |-> 4]
Points == {PA, PB}

Queries == {"", "Paris"}

\* Option<Vec<LocationPoint>> values the geocoding collaborator may return.
SearchResults == {None, Some(<<>>), Some(<<PB>>), Some(<<PA, PB>>)}

WeatherPreferences(p, u) ==
    [location |-> p.location, lat |-> p.lat, lon |-> p.lon, units |-> u]

\* Preferences the caller may hand to load().
LoadPreferences ==
    {None, Some(WeatherPreferences(PA, "Metric"))}

\* WeatherData as far as the core looks at it: the units and place it was
\* fetched for.
WeatherData(u, lat, lon) == [units |-> u, lat |-> lat, lon |-> lon]

Msg(kind, arg) == [kind |-> kind, arg |-> arg]

VARIABLES
    app,        \* the WeatherApplication fields update() and the tasks touch
    input,      \* widget values the user sets: switch, entry text, combo row/popup
    disk,       \* the saved configuration (save_config)
    queue,      \* messages in the flume channel
    lock,       \* holder of Mutex<WeatherApplication>: <<>> when free
    loop_pc,    \* consumption loop: "suspended", "draining", "handling"
    cur,        \* the message the loop is applying
    tasks,      \* futures spawned with spawn_local, by slot
    owner,      \* the strong Arc of the runtime still exists
    loaded,     \* load() has run
    panicked,   \* some unwrap()/expect() has panicked
    last_requested, \* history: interest of the last request_weather call
    events,     \* history: number of user interactions so far
    last        \* history: the step just taken

vars == <<app, input, disk, queue, lock, loop_pc, cur, tasks, owner, loaded,
          panicked, last_requested, events, last>>

\* ------------------------------------------------------------- the state
\* WeatherApplication::new
new ==
    [preferences |-> None,
     location_text |-> "",
     location_visible |-> FALSE,
     location_search_visible |-> TRUE,
     location_search_button_visible |-> TRUE,
     location_results_visible |-> FALSE,
     location_results_model |-> <<>>,
     refresh_button_visible |-> FALSE,
     current |-> <<>>,
     daily |-> <<>>,
     daily_visible |-> FALSE,
     hourly |-> <<>>,
     hourly_visible |-> FALSE,
     alerts |-> <<>>,
     stack_visible |-> TRUE]

\* What the toolkit keeps and the user changes: the switch position, the
\* text typed in the search entry, the active row and the popup of the combo.
new_input == [units_switch |-> FALSE, location_search_text |-> "",
              active |-> None, popup |-> FALSE]

FreeTask == [pc |-> "free", kind |-> "none", interest |-> None,
             query |-> None, new_prefs |-> None]

FetchTask(p) == [pc |-> "spawned", kind |-> "fetch", interest |-> Some(p),
                 query |-> None, new_prefs |-> None]

SearchTask(q) == [pc |-> "spawned", kind |-> "search", interest |-> None,
                  query |-> Some(q), new_prefs |-> None]

\* A step: the code that ran, whether its lock attempt (if any) succeeded,
\* how many messages it sent, and the task slot it ran in (0: not a task).
\* For a handler run, kind is the kind of the message applied.
Step(act, ok, sent) == [act |-> act, ok |-> ok, sent |-> sent, who |-> 0, kind |-> ""]
TaskStep(act, ok, sent, s) == [act |-> act, ok |-> ok, sent |-> sent, who |-> s, kind |-> ""]
UpdateStep(kind, sent) == [act |-> "update", ok |-> TRUE, sent |-> sent, who |-> 0, kind |-> kind]

\* The result of running a piece of synchronous code: the application, the
\* widget inputs and the saved configuration afterwards, the messages sent
\* and the futures handed to spawn_local, in order.
Eff(a, i, d, sent, spawn) ==
    [app |-> a, input |-> i, disk |-> d, sent |-> sent, spawn |-> spawn]

\* --------------------------------------------------------------- the lock
LoopGuard == <<"loop">>
MainGuard == <<"main">>
TaskGuard(s) == <<"task", s>>

try_lock_always(lk) == TRUE

\* Mutex::try_lock: Ok only when nobody holds the guard.
try_lock(lk) == lk = <<>>

\* Weak::upgrade: Some while a strong Arc exists. The runtime owns one; a
\* task past its try_lock keeps the upgraded temporary alive until it ends.
upgrade == owner \/ \E s \in Slots : tasks[s].pc = "io"

\* ----------------------------------------------------- synchronous code
get_units(a) ==
    IF IsSome(a.preferences) THEN Unwrap(a.preferences).units ELSE "Metric"

update_units_or_create(a, units) ==
    IF IsSome(a.preferences)
    THEN [a EXCEPT !.preferences = Some([Unwrap(a.preferences) EXCEPT !.units = units])]
    ELSE [a EXCEPT !.preferences = Some(WeatherPreferences(PA, units))]

update_units(a, units) ==
    IF IsSome(a.preferences)
    THEN [a EXCEPT !.preferences = Some([Unwrap(a.preferences) EXCEPT !.units = units])]
    ELSE a

update_current_weather(a, current) ==
    IF IsSome(current)
    THEN [a EXCEPT !.current = <<Unwrap(current), get_units(a)>>]
    ELSE [a EXCEPT !.current = <<"Invalid Data">>]

update_daily_weather(a, daily) ==
    IF IsSome(daily)
    THEN [a EXCEPT !.daily = <<Unwrap(daily), get_units(a)>>, !.daily_visible = TRUE]
    ELSE [a EXCEPT !.daily = <<>>, !.daily_visible = FALSE]

update_hourly_weather(a, hourly) ==
    IF IsSome(hourly)
    THEN [a EXCEPT !.hourly = <<Unwrap(hourly), get_units(a)>>, !.hourly_visible = TRUE]
    ELSE [a EXCEPT !.hourly = <<>>, !.hourly_visible = FALSE]

update_alerts_kept_without_data(a, weather_alerts) ==
    IF IsSome(weather_alerts)
    THEN [a EXCEPT !.alerts = <<Unwrap(weather_alerts)>>]
    ELSE a

update_alerts(a, weather_alerts) ==
    IF IsSome(weather_alerts)
    THEN [a EXCEPT !.alerts = <<Unwrap(weather_alerts)>>]
    ELSE [a EXCEPT !.alerts = <<>>]

update_weather(a, weather) ==
    IF IsSome(weather)
    THEN update_alerts(
           update_hourly_weather(
             update_daily_weather(
               update_current_weather(
                 update_units(a, Unwrap(weather).units), weather),
               weather),
             weather),
           weather)
    ELSE update_alerts(
           update_hourly_weather(
             update_daily_weather(
               update_current_weather(a, None), None), None), None)

set_stack_components_visible(a, visible) == [a EXCEPT !.stack_visible = visible]

update_location(a, i, location) ==
    IF IsSome(location)
    THEN [app |-> set_stack_components_visible(
                    [a EXCEPT !.location_visible = TRUE,
                              !.location_search_visible = FALSE,
                              !.location_results_visible = FALSE,
                              !.location_search_button_visible = FALSE,
                              !.refresh_button_visible = TRUE,
                              !.daily_visible = TRUE,
                              !.location_text = Unwrap(location)], TRUE),
          input |-> i]
    ELSE [app |-> set_stack_components_visible(
                    update_hourly_weather(
                      update_daily_weather(
                        update_current_weather(
                          [a EXCEPT !.location_text = "",
                                    !.location_visible = FALSE,
                                    !.location_search_visible = TRUE,
                                    !.location_search_button_visible = TRUE,
                                    !.refresh_button_visible = FALSE,
                                    !.daily_visible = FALSE],
                          None), None), None), FALSE),
          input |-> [i EXCEPT !.location_search_text = ""]]

\* request_weather up to and including spawn_local: one future is spawned.
request_weather(interest) == <<FetchTask(interest)>>

refresh_weather_or_default(a) ==
    IF IsSome(a.preferences)
    THEN request_weather([location |-> Unwrap(a.preferences).location,
                          lat |-> Unwrap(a.preferences).lat,
                          lon |-> Unwrap(a.preferences).lon])
    ELSE request_weather(PA)

refresh_weather(a) ==
    IF IsSome(a.preferences)
    THEN request_weather([location |-> Unwrap(a.preferences).location,
                          lat |-> Unwrap(a.preferences).lat,
                          lon |-> Unwrap(a.preferences).lon])
    ELSE <<>>

search_location(search_query) ==
    IF Len(search_query) = 0 THEN <<>> ELSE <<SearchTask(search_query)>>

save_preferences(d, preferences) == Some(preferences)

set_from_location_point(prefs, p) ==
    [prefs EXCEPT !.location = p.location, !.lat = p.lat, !.lon = p.lon]

\* The closure connected to location_results "changed", for the row p.
location_results_changed(a, i, d, lk, p) ==
    IF try_lock(lk)
    THEN IF IsSome(a.preferences)
         THEN Eff([a EXCEPT !.preferences =
                       Some(set_from_location_point(Unwrap(a.preferences), p))],
                  i,
                  Some(set_from_location_point(Unwrap(a.preferences), p)),
                  <<>>, request_weather(p))
         ELSE Eff(a, i, d, <<>>, request_weather(p))
    ELSE Eff(a, i, d, <<>>, <<>>)

several_results(results_count) == results_count >= 1

\* match results_count { 1 => .. }: the arm that selects the only candidate.
single_result(results_count) == results_count = 1

update_location_results(a, i, d, lk, location_results) ==
    IF IsSome(location_results)
    THEN LET list == Unwrap(location_results)
             a1 == [a EXCEPT !.location_results_model = list,
                             !.location_results_visible = TRUE]
             i1 == [i EXCEPT !.active = None]
         IN IF single_result(Len(list))
            THEN LET first == list[1]
                     \* set_active_id emits "changed": the closure runs here,
                     \* inside the handler, with the lock as the handler holds it
                     forced == location_results_changed(
                                   a1, [i1 EXCEPT !.active = Some(first.location)],
                                   d, lk, first)
                 IN Eff(forced.app, forced.input, forced.disk, forced.sent,
                        forced.spawn \o request_weather(first))
            ELSE Eff(a1, [i1 EXCEPT !.popup = TRUE], d, <<>>, <<>>)
    ELSE Eff(a, i, d, <<Msg("Location", None)>>, <<>>)

\* WeatherApplication::update, called with the lock held as lk.
update(a, i, d, lk, m) ==
    CASE m.kind = "Data" -> Eff(update_weather(a, m.arg), i, d, <<>>, <<>>)
      [] m.kind = "Location" ->
            Eff(update_location(a, i, m.arg).app,
                update_location(a, i, m.arg).input, d, <<>>, <<>>)
      [] m.kind = "SearchLocations" ->
            Eff(a, i, d, <<>>, search_location(Unwrap(m.arg)))
      [] m.kind = "SetLocations" -> update_location_results(a, i, d, lk, m.arg)
      [] m.kind = "SavePreferences" ->
            Eff(a, i, save_preferences(d, Unwrap(m.arg)), <<>>, <<>>)
      [] m.kind = "SetUnits" -> Eff(update_units(a, Unwrap(m.arg)), i, d, <<>>, <<>>)
      [] m.kind = "Refresh" -> Eff(a, i, d, <<>>, refresh_weather(a))

\* ------------------------------------------------------------ spawn_local
FreeSlots(ts) == {s \in Slots : ts[s].pc = "free"}

LowestFree(ts) == CHOOSE s \in FreeSlots(ts) : \A r \in FreeSlots(ts) : s <= r

RECURSIVE spawn_local(_, _)
spawn_local(ts, futures) ==
    IF futures = <<>> THEN ts
    ELSE spawn_local([ts EXCEPT ![LowestFree(ts)] = Head(futures)], Tail(futures))

CanSpawn(ts, futures) == Len(futures) <= Cardinality(FreeSlots(ts))

\* The interest of the last request_weather call among the futures spawned.
Requested(prev, futures) ==
    IF \E k \in 1..Len(futures) : futures[k].kind = "fetch"
    THEN futures[CHOOSE k \in 1..Len(futures) :
                    /\ futures[k].kind = "fetch"
                    /\ \A j \in 1..Len(futures) : futures[j].kind = "fetch" => j <= k].interest
    ELSE prev

\* ------------------------------------------------------------- scheduling
runs_anywhere == TRUE

\* Everything runs on the one glib main context: a callback or a future is
\* polled only while the consumption loop is suspended in recv_async.
MainContextIdle == loop_pc = "suspended"

Running == ~panicked

Init ==
    /\ app = new
    /\ input = new_input
    /\ disk = None
    /\ queue = <<>>
    /\ lock = <<>>
    /\ loop_pc = "suspended"
    /\ cur = None
    /\ tasks = [s \in Slots |-> FreeTask]
    /\ owner = TRUE
    /\ loaded = FALSE
    /\ panicked = FALSE
    /\ last_requested = None
    /\ events = 0
    /\ last = Step("new", TRUE, 0)

\* WeatherApplication::load, called by the runtime through its guard.
Load(preferences) ==
    /\ Running /\ ~loaded /\ try_lock(lock)
    /\ LET a1 == [app EXCEPT !.preferences = preferences]
           i1 == IF IsSome(preferences)
                 THEN [input EXCEPT !.units_switch = (Unwrap(preferences).units = "Metric")]
                 ELSE input
           futures == IF IsSome(preferences)
                      THEN request_weather([location |-> Unwrap(preferences).location,
                                            lat |-> Unwrap(preferences).lat,
                                            lon |-> Unwrap(preferences).lon])
                      ELSE <<>>
           \* no preferences: the reset is sent only if the try_lock inside
           \* load succeeds, and the caller holds the guard
           sent == IF ~IsSome(preferences) /\ try_lock(MainGuard)
                   THEN <<Msg("Location", None)>> ELSE <<>>
       IN /\ app' = a1
          /\ input' = i1
          /\ tasks' = spawn_local(tasks, futures)
          /\ queue' = queue \o sent
          /\ last_requested' = Requested(last_requested, futures)
          /\ last' = Step("load", TRUE, Len(sent))
    /\ loaded' = TRUE
    /\ UNCHANGED <<disk, lock, loop_pc, cur, owner, panicked, events>>

\* A closure bound in load() that, under the guard, only sends messages:
\* upgrade().unwrap(), try_lock(), then the sends.
SendingCallback(act, msgs) ==
    /\ Running /\ loaded /\ MainContextIdle
    /\ events < MaxEvents
    /\ events' = events + 1
    /\ IF ~upgrade
       THEN /\ panicked' = TRUE
            /\ queue' = queue
            /\ last' = Step(act, FALSE, 0)
       ELSE IF try_lock(lock)
            THEN /\ queue' = queue \o msgs
                 /\ panicked' = panicked
                 /\ last' = Step(act, TRUE, Len(msgs))
            ELSE /\ queue' = queue
                 /\ panicked' = panicked
                 /\ last' = Step(act, FALSE, 0)
    /\ UNCHANGED <<app, disk, lock, loop_pc, cur, tasks, owner, loaded, last_requested>>

units_switch_sends_units_only(metric) ==
    <<Msg("SetUnits", Some(IF metric THEN "Metric" ELSE "Imperial"))>>

\* What the units_switch closure sends under the guard.
units_switch_sends(metric) ==
    <<Msg("SetUnits", Some(IF metric THEN "Metric" ELSE "Imperial")),
      Msg("Refresh", None)>>

\* units_switch.connect_state_notify: the user flips the switch.
UnitsSwitchNotify ==
    /\ input' = [input EXCEPT !.units_switch = ~input.units_switch]
    /\ SendingCallback("units_switch", units_switch_sends(~input.units_switch))

\* location.connect_editing_notify: the user starts editing the label.
LocationEditing ==
    /\ app.location_visible
    /\ input' = input
    /\ SendingCallback("location_editing", <<Msg("Location", None)>>)

\* location_search_button.connect_clicked: the user leaves the text q in the
\* search entry and clicks the button.
SearchClicked(q) ==
    /\ app.location_search_visible /\ app.location_search_button_visible
    /\ input' = [input EXCEPT !.location_search_text = q]
    /\ SendingCallback("search_clicked",
           IF Len(q) = 0 THEN <<>> ELSE <<Msg("SearchLocations", Some(q))>>)

\* refresh_button.connect_clicked
RefreshClicked ==
    /\ app.refresh_button_visible
    /\ input' = input
    /\ SendingCallback("refresh_clicked", <<Msg("Refresh", None)>>)

\* location_results.connect_changed: the user picks row p of the combo.
ComboChanged(p) ==
    /\ Running /\ loaded /\ MainContextIdle
    /\ app.location_results_visible
    /\ \E k \in 1..Len(app.location_results_model) : app.location_results_model[k] = p
    /\ input.active # Some(p.location)
    /\ events < MaxEvents
    /\ events' = events + 1
    /\ LET i1 == [input EXCEPT !.active = Some(p.location), !.popup = FALSE]
           e == location_results_changed(app, i1, disk, lock, p)
       IN IF ~upgrade
          THEN /\ panicked' = TRUE
               /\ input' = i1
               /\ last' = Step("combo_changed", FALSE, 0)
               /\ UNCHANGED <<app, disk, tasks, last_requested>>
          ELSE /\ CanSpawn(tasks, e.spawn)
               /\ app' = e.app
               /\ input' = e.input
               /\ disk' = e.disk
               /\ tasks' = spawn_local(tasks, e.spawn)
               /\ last_requested' = Requested(last_requested, e.spawn)
               /\ last' = Step("combo_changed", try_lock(lock), 0)
               /\ panicked' = panicked
    /\ UNCHANGED <<queue, lock, loop_pc, cur, owner, loaded>>

\* ------------------------------------------------------ consumption loop
\* recv_async returns the next message without suspending while the channel
\* is not empty; the loop then tries the lock and drops the message when the
\* lock is held.
LoopReceive ==
    /\ Running /\ loaded /\ owner
    /\ loop_pc \in {"suspended", "draining"}
    /\ queue # <<>>
    /\ queue' = Tail(queue)
    /\ IF try_lock(lock)
       THEN /\ lock' = LoopGuard
            /\ loop_pc' = "handling"
            /\ cur' = Some(Head(queue))
            /\ last' = Step("receive", TRUE, 0)
       ELSE /\ lock' = lock
            /\ loop_pc' = IF Tail(queue) = <<>> THEN "suspended" ELSE "draining"
            /\ cur' = None
            /\ last' = Step("receive", FALSE, 0)
    /\ UNCHANGED <<app, input, disk, tasks, owner, loaded, panicked, last_requested, events>>

\* The handler run: update() under the guard, then the guard is dropped.
LoopUpdate ==
    /\ Running /\ loop_pc = "handling"
    /\ LET e == update(app, input, disk, lock, Unwrap(cur))
       IN /\ CanSpawn(tasks, e.spawn)
          /\ app' = e.app
          /\ input' = e.input
          /\ disk' = e.disk
          /\ queue' = queue \o e.sent
          /\ tasks' = spawn_local(tasks, e.spawn)
          /\ last_requested' = Requested(last_requested, e.spawn)
          /\ last' = UpdateStep(Unwrap(cur).kind, Len(e.sent))
          /\ loop_pc' = IF queue \o e.sent = <<>> THEN "suspended" ELSE "draining"
    /\ lock' = <<>>
    /\ cur' = None
    /\ UNCHANGED <<owner, loaded, panicked, events>>

\* ------------------------------------------------------ spawned futures
guard_dropped_before_await(s) == <<>>

\* The guard bound by `if let Ok(app) = ..try_lock()` is in scope until the
\* end of the if-let body, so the future keeps it while it awaits.
guard_across_await(s) == TaskGuard(s)

\* First poll of a future spawned by request_weather or search_location:
\* upgrade().unwrap(), try_lock(), and on success everything up to the await
\* of the collaborator, with the guard still in scope.
TaskStart(s) ==
    /\ Running /\ MainContextIdle
    /\ tasks[s].pc = "spawned"
    /\ IF ~upgrade
       THEN /\ panicked' = TRUE
            /\ tasks' = [tasks EXCEPT ![s] = FreeTask]
            /\ last' = TaskStep("task_start", FALSE, 0, s)
            /\ UNCHANGED <<app, lock>>
       ELSE /\ panicked' = panicked
            /\ IF try_lock(lock)
               THEN /\ lock' = guard_across_await(s)
                    /\ last' = TaskStep("task_start", TRUE, 0, s)
                    /\ IF tasks[s].kind = "fetch"
                       THEN /\ tasks' = [tasks EXCEPT ![s].pc = "io",
                                   ![s].new_prefs = Some(WeatherPreferences(
                                        Unwrap(tasks[s].interest), get_units(app)))]
                            /\ app' = app
                       ELSE /\ tasks' = [tasks EXCEPT ![s].pc = "io"]
                            /\ app' = [app EXCEPT !.location_visible = FALSE,
                                                  !.location_search_visible = FALSE,
                                                  !.location_search_button_visible = FALSE]
               ELSE /\ tasks' = [tasks EXCEPT ![s] = FreeTask]
                    /\ last' = TaskStep("task_start", FALSE, 0, s)
                    /\ UNCHANGED <<app, lock>>
    /\ UNCHANGED <<input, disk, queue, loop_pc, cur, owner, loaded, last_requested, events>>

fetch_discards_result(data, new_prefs) == <<>>

fetch_sends_location_first(data, new_prefs) ==
    <<Msg("Location", Some(new_prefs.location)),
      Msg("Data", data),
      Msg("SavePreferences", Some(new_prefs))>>

\* What the fetch future sends once get_weather_data has returned.
fetch_sends(data, new_prefs) ==
    <<Msg("Data", data),
      Msg("Location", Some(new_prefs.location)),
      Msg("SavePreferences", Some(new_prefs))>>

\* What the search future sends once search_locations has returned.
search_sends(locations) == <<Msg("SetLocations", locations)>>

\* get_weather_data returns: the three sends, then the guard goes out of scope.
FetchComplete(s, data) ==
    /\ Running /\ MainContextIdle
    /\ tasks[s].pc = "io" /\ tasks[s].kind = "fetch"
    /\ LET new_prefs == Unwrap(tasks[s].new_prefs)
       IN /\ data \in {None, Some(WeatherData(new_prefs.units, new_prefs.lat, new_prefs.lon))}
          /\ queue' = queue \o fetch_sends(data, new_prefs)
          /\ last' = TaskStep("fetch_complete", TRUE, Len(fetch_sends(data, new_prefs)), s)
    /\ lock' = <<>>
    /\ tasks' = [tasks EXCEPT ![s] = FreeTask]
    /\ UNCHANGED <<app, input, disk, loop_pc, cur, owner, loaded, panicked, last_requested, events>>

\* search_locations returns: one send, then the guard goes out of scope.
SearchComplete(s, locations) ==
    /\ Running /\ MainContextIdle
    /\ tasks[s].pc = "io" /\ tasks[s].kind = "search"
    /\ queue' = queue \o search_sends(locations)
    /\ lock' = <<>>
    /\ tasks' = [tasks EXCEPT ![s] = FreeTask]
    /\ last' = TaskStep("search_complete", TRUE, Len(search_sends(locations)), s)
    /\ UNCHANGED <<app, input, disk, loop_pc, cur, owner, loaded, panicked, last_requested, events>>

\* Some future has returned from its collaborator and sends its outcome.
TaskCompletes ==
    \E s \in Slots :
       \/ \E data \in {None} \cup {Some(WeatherData(u, p.lat, p.lon)) : u \in Units, p \in Points} :
             FetchComplete(s, data)
       \/ \E locations \in SearchResults : SearchComplete(s, locations)

\* The runtime drops its strong handle (the application exits); the
\* consumption loop is gone with it.
Teardown ==
    /\ Running /\ loaded /\ owner /\ MainContextIdle
    /\ owner' = FALSE
    /\ last' = Step("teardown", TRUE, 0)
    /\ UNCHANGED <<app, input, disk, queue, lock, loop_pc, cur, tasks, loaded,
                   panicked, last_requested, events>>

\* The steps possible while the runtime holds its strong handle.
NextAlive ==
    \/ \E preferences \in LoadPreferences : Load(preferences)
    \/ UnitsSwitchNotify
    \/ LocationEditing
    \/ \E q \in Queries : SearchClicked(q)
    \/ RefreshClicked
    \/ \E p \in Points : ComboChanged(p)
    \/ LoopReceive
    \/ LoopUpdate
    \/ \E s \in Slots : TaskStart(s)
    \/ TaskCompletes

Next ==
    \/ NextAlive
    \/ Teardown

Spec == Init /\ [][Next]_vars

TypeOK ==
    /\ loop_pc \in {"suspended", "draining", "handling"}
    /\ events \in 0..MaxEvents
    /\ \A s \in Slots : tasks[s].pc \in {"free", "spawned", "io"}

\* The application state stays alive, the collaborators return and the main
\* context polls what is ready: the future awaiting its I/O is resumed, and
\* the loop goes on with its drain.
FairSpec ==
    /\ Init /\ [][NextAlive]_vars
    /\ WF_vars(LoopReceive \/ LoopUpdate \/ TaskCompletes)

\* ------------------------------------------------------------ properties
Handling == loop_pc = "handling"

Applying(kind) == Handling /\ Unwrap(cur).kind = kind

AwaitingIo(s) == tasks[s].pc = "io"

\* The steps that begin with a try_lock of a callback or of a spawned future.
AttemptActs == {"units_switch", "location_editing", "search_clicked",
                "refresh_clicked", "combo_changed", "task_start"}

\* C1: the loop applies the messages one at a time. While a handler runs it
\* alone holds the guard, no future is between its try_lock and its end, and
\* the only step that can follow is the end of that handler run, which drops
\* the guard before the next message is taken.
C1_HandlersSerialized ==
    /\ [](Handling => (lock = LoopGuard /\ \A s \in Slots : ~AwaitingIo(s)))
    /\ [][Handling => (last'.act = "update" /\ last'.kind = Unwrap(cur).kind
                       /\ ~Handling' /\ lock' = <<>>)]_vars
    /\ [][Len(queue') < Len(queue) => (~Handling /\ last'.act = "receive")]_vars

\* C1 witness: a handler is running while another message from a producer
\* waits in the channel and a spawned future waits to be polled.
C1_Witness ==
    /\ Handling
    /\ queue # <<>>
    /\ \E s \in Slots : tasks[s].pc = "spawned"

\* C2: a callback or future whose weak handle no longer upgrades gives up
\* silently: the step neither panics nor sends.
C2_ExpiredHandleSilent ==
    [][(~upgrade /\ last'.act \in AttemptActs) => (~panicked' /\ queue' = queue)]_vars

\* C3: a future awaiting its collaborator does not hold the state lock.
C3_NoLockWhileAwaiting ==
    \A s \in Slots : AwaitingIo(s) => lock # TaskGuard(s)

\* C4: a callback or future that finds the lock held gives up at once: the
\* application, the saved configuration, the channel and the lock are as
\* before, no future is spawned, the future that tried is finished, and the
\* holder of the lock is never one that waits for the lock itself.
C4_NeverBlocks ==
    /\ [][(lock # <<>> /\ last'.act \in AttemptActs) =>
            /\ ~last'.ok /\ last'.sent = 0
            /\ app' = app /\ disk' = disk /\ queue' = queue /\ lock' = lock
            /\ \A s \in Slots : tasks'[s] = tasks[s] \/
                   (s = last'.who /\ tasks[s].pc = "spawned" /\ tasks'[s].pc = "free")]_vars
    /\ [](\A s \in Slots : lock = TaskGuard(s) => AwaitingIo(s))
    /\ [](\A s \in Slots : (tasks[s].pc = "spawned" /\ MainContextIdle /\ Running)
              => ENABLED TaskStart(s))

\* C4 witness: a future has just found the lock held by a future that awaits
\* its I/O, and has ended.
C4_Witness ==
    /\ last.act = "task_start" /\ ~last.ok /\ ~panicked
    /\ \E s \in Slots : lock = TaskGuard(s)

\* C5: the application state changes only in a handler run of the loop (or
\* in load, which sets it up).
C5_OnlyHandlersWrite ==
    [][app' # app => last'.act \in {"update", "load"}]_vars

Applied(kind) == last.act = "update" /\ last.kind = kind

\* C6: a SetUnits in the channel is always directly followed by a Refresh;
\* once SetUnits has been applied the loop, still draining with the lock
\* free, can only take that Refresh next and apply it, so no Data is applied
\* in between.
C6_RefreshFollowsUnits ==
    /\ [](\A k \in 1..Len(queue) : queue[k].kind = "SetUnits" =>
              (k < Len(queue) /\ queue[k + 1].kind = "Refresh"))
    /\ []((Applying("SetUnits") \/ Applied("SetUnits")) =>
              (queue # <<>> /\ Head(queue).kind = "Refresh"))
    /\ [](Applied("SetUnits") => (loop_pc = "draining" /\ lock = <<>>))
    /\ [][Applied("SetUnits") =>
              (last'.act = "receive" /\ last'.ok /\ Applying("Refresh")')]_vars
    /\ [][Applying("Refresh") => Applied("Refresh")']_vars

\* C6 witness: SetUnits(Imperial) has just been applied to preferences that
\* were Metric, while data shown under Metric is on display.
C6_Witness ==
    /\ Applied("SetUnits")
    /\ get_units(app) = "Imperial"
    /\ Len(app.current) = 2 /\ app.current[2] = "Metric"

\* C7: applying SetLocations with an empty list ends as applying
\* Location(None) does: the handler either leaves that very state or sends
\* Location(None) to reach it in the drain.
C7_EmptyListIsNoLocation ==
    [][(Applying("SetLocations") /\ IsSome(Unwrap(cur).arg)
                                 /\ Len(Unwrap(Unwrap(cur).arg)) = 0) =>
          \/ /\ app' = update_location(app, input, None).app
             /\ input' = update_location(app, input, None).input
          \/ /\ Len(queue') = Len(queue) + 1
             /\ queue'[Len(queue')].kind = "Location"
             /\ ~IsSome(queue'[Len(queue')].arg)]_vars

\* C8: applying SetLocations with the single candidate p does what picking p
\* in the combo does: the same preferences in memory, the same single fetch
\* future spawned, nothing sent.
C8_SingleCandidateIsSelection ==
    [][(Applying("SetLocations") /\ IsSome(Unwrap(cur).arg)
                                 /\ Len(Unwrap(Unwrap(cur).arg)) = 1) =>
          LET p == Unwrap(Unwrap(cur).arg)[1]
              picked == location_results_changed(app, input, disk, <<>>, p)
          IN /\ app'.preferences = picked.app.preferences
             /\ tasks' = spawn_local(tasks, picked.spawn)
             /\ queue' = queue]_vars

\* C9: once some location has been requested, applying Refresh spawns a
\* fetch for the location of the last request.
C9_RefreshRefetchesLastRequested ==
    [][(Applying("Refresh") /\ IsSome(last_requested)) =>
          \E s \in Slots : /\ tasks[s].pc = "free"
                           /\ tasks'[s] = FetchTask(Unwrap(last_requested))]_vars

OutcomeKind(s) == IF tasks[s].kind = "fetch" THEN "Data" ELSE "SetLocations"

C11_FetchesOverlap ==
    [][\A s \in Slots :
          (/\ tasks[s].pc = "spawned" /\ tasks[s].kind = "fetch" /\ upgrade
           /\ last'.act = "task_start" /\ last'.who = s
           /\ \E r \in Slots : r # s /\ AwaitingIo(r) /\ tasks[r].kind = "fetch")
          => AwaitingIo(s)']_vars

\* The messages a step has appended to the channel.
Enqueued == SubSeq(queue', Len(queue) + 1, Len(queue'))

\* C12: a fetch future sends SavePreferences exactly when its fetch gave a
\* snapshot: after Data(None) no SavePreferences follows.
C12_PersistOnlyOnSuccess ==
    [][last'.act = "fetch_complete" =>
          ((\E k \in 1..Len(Enqueued) : Enqueued[k].kind = "SavePreferences")
             <=> (\E k \in 1..Len(Enqueued) :
                     Enqueued[k].kind = "Data" /\ IsSome(Enqueued[k].arg)))]_vars

\* C13: applying Location(None) ends in the no-location state: search entry
\* and button shown, label empty and hidden, refresh hidden, and the current,
\* hourly, daily and alerts projections cleared.
C13_LocationNoneResets ==
    [][(Applying("Location") /\ ~IsSome(Unwrap(cur).arg)) =>
          /\ app'.location_search_visible /\ app'.location_search_button_visible
          /\ app'.location_text = "" /\ ~app'.location_visible
          /\ ~app'.refresh_button_visible
          /\ app'.current = update_current_weather(app, None).current
          /\ app'.hourly = <<>> /\ app'.daily = <<>> /\ app'.alerts = <<>>]_vars

\* C14: applying SetLocations with two or more candidates shows the picker
\* (the combo holds the candidates, is visible and popped up, no row active)
\* and does nothing else: no future spawned, no message sent, nothing
\* requested or saved.
C14_SeveralCandidatesShowPicker ==
    [][(Applying("SetLocations") /\ IsSome(Unwrap(cur).arg)
                                 /\ Len(Unwrap(Unwrap(cur).arg)) >= 2) =>
          /\ app' = [app EXCEPT !.location_results_model = Unwrap(Unwrap(cur).arg),
                                !.location_results_visible = TRUE]
          /\ input'.popup /\ input'.active = None
          /\ tasks' = tasks /\ queue' = queue
          /\ last_requested' = last_requested /\ disk' = disk]_vars

\* C14 witness: SetLocations with two candidates has just been applied and
\* the picker is up with both, no row chosen.
C14_Witness ==
    /\ Applied("SetLocations")
    /\ Len(app.location_results_model) = 2
    /\ app.location_results_visible /\ input.popup /\ input.active = None

C16_RefreshWithoutLocationIsNoOp ==
    /\ [](~IsSome(last_requested) => ~IsSome(app.preferences))
    /\ [][(Applying("Refresh") /\ ~IsSome(last_requested)) =>
             /\ app' = app /\ input' = input /\ disk' = disk
             /\ tasks' = tasks /\ queue' = queue
             /\ last_requested' = last_requested]_vars

\* C16 witness: Refresh has just been applied with no location ever
\* requested.
C16_Witness ==
    /\ Applied("Refresh")
    /\ loaded /\ ~IsSome(last_requested)

\* C17: load with no preferences sends Location(None), although the caller
\* of load holds the state lock.
C17_LoadWithoutPreferencesResets ==
    [][(last'.act = "load" /\ ~IsSome(app'.preferences)) =>
          Enqueued = <<Msg("Location", None)>>]_vars

\* C18: applying a Data message leaves the stored unit preference as it is.
C18_DataKeepsUnits ==
    [][Applying("Data") => get_units(app') = get_units(app)]_vars

\* The messages only a fetch future sends.
FromFetch(m) ==
    \/ m.kind \in {"Data", "SavePreferences"}
    \/ m.kind = "Location" /\ IsSome(m.arg)

\* q holds, from position k on, the three messages of one fetch future.
IsTriple(q, k) ==
    /\ k + 2 <= Len(q)
    /\ q[k].kind = "Data"
    /\ q[k + 1].kind = "Location" /\ IsSome(q[k + 1].arg)
    /\ q[k + 2].kind = "SavePreferences"
    /\ Unwrap(q[k + 2].arg).location = Unwrap(q[k + 1].arg)

\* A fetch future that got the lock reads the units then, and ends by
\* sending exactly Data, Location(Some(requested name)) and
\* SavePreferences(requested location, those units), whatever the outcome;
\* the three stay next to each other in the channel, and once Data has been
\* applied the loop takes and applies Location and then SavePreferences.
TripleSentAndKeptInOrder ==
    /\ [][\A s \in Slots :
             (tasks[s].pc = "spawned" /\ tasks[s].kind = "fetch" /\ AwaitingIo(s)') =>
                tasks'[s].new_prefs =
                   Some(WeatherPreferences(Unwrap(tasks[s].interest), get_units(app)))]_vars
    /\ [][\A s \in Slots :
             (AwaitingIo(s) /\ tasks[s].kind = "fetch" /\ ~AwaitingIo(s)') =>
                /\ Len(Enqueued) = 3
                /\ Enqueued[1].kind = "Data"
                /\ Enqueued[2] = Msg("Location", Some(Unwrap(tasks[s].interest).location))
                /\ Enqueued[3] = Msg("SavePreferences", tasks[s].new_prefs)]_vars
    /\ [](\A k \in 1..Len(queue) : queue[k].kind = "Data" => IsTriple(queue, k))
    /\ [][Applied("Data") =>
             (last'.act = "receive" /\ last'.ok /\ Applying("Location")'
              /\ IsSome(Unwrap(cur').arg)
              /\ queue' # <<>> /\ Head(queue').kind = "SavePreferences")]_vars
    /\ [][(Applying("Location") /\ IsSome(Unwrap(cur).arg)) =>
             (Applied("Location")' /\ app'.location_visible)]_vars
    /\ [][(Applied("Location") /\ app.location_visible) =>
             (last'.act = "receive" /\ last'.ok /\ Applying("SavePreferences")')]_vars
    /\ [][Applying("SavePreferences") => Applied("SavePreferences")']_vars

C20_OneTaskPastItsLock ==
    /\ [](Cardinality({s \in Slots : AwaitingIo(s)}) <= 1)
    /\ [](\A s \in Slots : AwaitingIo(s) => lock = guard_across_await(s))
    /\ [][((\E r \in Slots : AwaitingIo(r)) /\ last'.act \in AttemptActs) =>
             /\ ~last'.ok /\ last'.sent = 0 /\ queue' = queue
             /\ \A s \in Slots : AwaitingIo(s)' <=> AwaitingIo(s)
             /\ \A s \in Slots : tasks[s].pc = "free" => tasks'[s].pc = "free"
             /\ last_requested' = last_requested]_vars

\* C20 witness: the user has just clicked a control while a future awaits
\* its collaborator, and the click was lost.
C20_Witness ==
    /\ last.act \in AttemptActs \ {"task_start"}
    /\ ~last.ok /\ ~panicked
    /\ \E s \in Slots : AwaitingIo(s)

NoPreferences == loaded /\ ~IsSome(app.preferences)

\* C21: once loaded, preferences never appear or disappear. Loaded without
\* preferences, the application keeps none whatever is applied or picked:
\* every fetch is made and shown under Metric, applying SetUnits changes
\* nothing, applying Refresh spawns nothing, and picking a location saves
\* nothing.
C21_PreferencesStayAbsent ==
    /\ [][loaded => (IsSome(app'.preferences) <=> IsSome(app.preferences))]_vars
    /\ [](NoPreferences =>
             /\ get_units(app) = "Metric"
             /\ \A s \in Slots : IsSome(tasks[s].new_prefs) =>
                    Unwrap(tasks[s].new_prefs).units = "Metric"
             /\ Len(app.current) = 2 => app.current[2] = "Metric")
    /\ [][(NoPreferences /\ Applying("SetUnits")) =>
             (app' = app /\ disk' = disk /\ tasks' = tasks /\ queue' = queue)]_vars
    /\ [][(NoPreferences /\ Applying("Refresh")) =>
             (app' = app /\ tasks' = tasks /\ last_requested' = last_requested)]_vars
    /\ [][(NoPreferences /\ last'.act = "combo_changed") =>
             (app' = app /\ disk' = disk)]_vars

\* C21 witness: loaded without preferences, the user has flipped the switch
\* twice and the SetUnits(Imperial) of the second flip has just been applied,
\* its Refresh next in the channel: there are still no preferences.
C21_Witness ==
    /\ NoPreferences
    /\ Applied("SetUnits")
    /\ events = 2 /\ ~input.units_switch
    /\ queue = <<Msg("Refresh", None)>>
====
